---- MODULE Spec2Model ----
(***************************************************************************)
(* Model of the OpenAIChatbot client (src/openai_chatbot.py): one history  *)
(* file on disk, the OPENAI_API_KEY environment value, one client object   *)
(* and the operations __init__, chat and chat_stream.                      *)
(*                                                                         *)
(* Text is a sequence of Unicode code points, the file is a sequence of    *)
(* bytes.  _save_history / _load_history are modelled through json.dump    *)
(* (ensure_ascii=False, indent=2), the UTF-8 codec of the text-mode file   *)
(* and json.load.                                                          *)
(***************************************************************************)
EXTENDS Integers, Sequences, FiniteSets, TLC

-----------------------------------------------------------------------------
(* Bounds of the model.                                                    *)

\* longest transcript a turn may start from
MaxHist == 1
\* most chunks delivered to one chat_stream call of a session
MaxChunks == 1
\* most chunks delivered to the chat_stream call of SpecStream
MaxStreamLen == 3

-----------------------------------------------------------------------------
(* Text helpers.                                                           *)

\* the concatenation of a sequence of texts (halving, to keep the nesting low)
RECURSIVE Flatten(_)
Flatten(ss) ==
    IF Len(ss) = 0 THEN << >>
    ELSE IF Len(ss) = 1 THEN ss[1]
    ELSE Flatten(SubSeq(ss, 1, Len(ss) \div 2))
         \o Flatten(SubSeq(ss, (Len(ss) \div 2) + 1, Len(ss)))

\* the absent value (Python None) of an optional text
None == << -1 >>

\* the absent value of an optional api key / environment value
NoKey == "None"

\* "role", "content", "system", "user", "assistant"
KRole == << 114, 111, 108, 101 >>
KContent == << 99, 111, 110, 116, 101, 110, 116 >>
RoleSystem == << 115, 121, 115, 116, 101, 109 >>
RoleUser == << 117, 115, 101, 114 >>
RoleAssistant == << 97, 115, 115, 105, 115, 116, 97, 110, 116 >>

\* a Python dict with string keys and values: the (key, value) pairs in
\* insertion order
Message(role, content) == << << KRole, role >>, << KContent, content >> >>

HasKey(d, k) == \E i \in 1..Len(d) : d[i][1] = k

\* d[k]
Get(d, k) == d[CHOOSE i \in 1..Len(d) : d[i][1] = k][2]

\* d[k] = v : a new key goes last, an existing key keeps its place
DictSet(d, k, v) ==
    IF HasKey(d, k)
    THEN << >> \o [i \in 1..Len(d) |-> IF d[i][1] = k THEN << k, v >> ELSE d[i]]
    ELSE Append(d, << k, v >>)

-----------------------------------------------------------------------------
(* The UTF-8 codec of open(..., encoding='utf-8').                         *)

Utf8EncodeChar(cp) ==
    IF cp < 128 THEN << cp >>
    ELSE IF cp < 2048 THEN << 192 + (cp \div 64), 128 + (cp % 64) >>
    ELSE IF cp < 65536
         THEN << 224 + (cp \div 4096), 128 + ((cp \div 64) % 64), 128 + (cp % 64) >>
    ELSE << 240 + (cp \div 262144), 128 + ((cp \div 4096) % 64),
            128 + ((cp \div 64) % 64), 128 + (cp % 64) >>

Utf8Encode(text) == Flatten([i \in 1..Len(text) |-> Utf8EncodeChar(text[i])])

IsCont(b, i) == i <= Len(b) /\ b[i] >= 128 /\ b[i] < 192

\* the number of bytes the lead byte announces, 0 for a byte that leads nothing
Utf8Width(lead) ==
    IF lead < 128 THEN 1
    ELSE IF lead >= 194 /\ lead < 224 THEN 2
    ELSE IF lead >= 224 /\ lead < 240 THEN 3
    ELSE IF lead >= 240 /\ lead < 245 THEN 4
    ELSE 0

\* the code point of the character whose lead byte is b[i]
Utf8DecodeChar(b, i) ==
    IF b[i] < 128 THEN b[i]
    ELSE IF b[i] < 224 THEN (b[i] - 192) * 64 + (b[i + 1] - 128)
    ELSE IF b[i] < 240
         THEN (b[i] - 224) * 4096 + (b[i + 1] - 128) * 64 + (b[i + 2] - 128)
    ELSE (b[i] - 240) * 262144 + (b[i + 1] - 128) * 4096 + (b[i + 2] - 128) * 64
         + (b[i + 3] - 128)

\* strict decoding: [ok, val]; ok = FALSE is UnicodeDecodeError.  The
\* characters start at the bytes that are no continuation bytes; each must be
\* followed by exactly the continuation bytes its lead announces.
Utf8Decode(b) ==
    LET leads == SelectSeq([i \in 1..Len(b) |-> i], LAMBDA i : ~IsCont(b, i))
        after(k) == IF k < Len(leads) THEN leads[k + 1] ELSE Len(b) + 1
        wellFormed ==
            /\ Len(b) > 0 => ~IsCont(b, 1)
            /\ \A k \in 1..Len(leads) : after(k) - leads[k] = Utf8Width(b[leads[k]])
    IN  IF wellFormed
        THEN [ok |-> TRUE,
              val |-> << >> \o [k \in 1..Len(leads) |-> Utf8DecodeChar(b, leads[k])]]
        ELSE [ok |-> FALSE, val |-> << >>]

\* universal newlines of a text-mode read: "\r\n" and "\r" become "\n"
TranslateNewlines(s) ==
    LET kept == SelectSeq([i \in 1..Len(s) |-> i],
                          LAMBDA i : ~(s[i] = 10 /\ i > 1 /\ s[i - 1] = 13))
    IN  << >> \o [k \in 1..Len(kept) |-> IF s[kept[k]] = 13 THEN 10 ELSE s[kept[k]]]

-----------------------------------------------------------------------------
(* json.dump(chat_history, f, ensure_ascii=False, indent=2).               *)

HexDigit(d) == IF d < 10 THEN 48 + d ELSE 87 + d

\* ESCAPE / ESCAPE_DCT of json.encoder: quote, backslash and the control
\* characters are escaped, everything else (non-ASCII included) is written raw
EscapeChar(c) ==
    IF c = 34 THEN << 92, 34 >>
    ELSE IF c = 92 THEN << 92, 92 >>
    ELSE IF c = 10 THEN << 92, 110 >>
    ELSE IF c = 13 THEN << 92, 114 >>
    ELSE IF c = 9 THEN << 92, 116 >>
    ELSE IF c = 8 THEN << 92, 98 >>
    ELSE IF c = 12 THEN << 92, 102 >>
    ELSE IF c < 32 THEN << 92, 117, 48, 48, HexDigit(c \div 16), HexDigit(c % 16) >>
    ELSE << c >>

EncodeString(s) ==
    << 34 >> \o Flatten([i \in 1..Len(s) |-> EscapeChar(s[i])]) \o << 34 >>

\* a newline followed by the indentation of nesting depth `level`
NewlineIndent(indent, level) == << 10 >> \o [i \in 1..(indent * level) |-> 32]

RECURSIVE Join(_, _)
Join(parts, sep) ==
    IF parts = << >> THEN << >>
    ELSE IF Len(parts) = 1 THEN parts[1]
    ELSE parts[1] \o sep \o Join(Tail(parts), sep)

DumpDict(d, indent, level) ==
    IF d = << >> THEN << 123, 125 >>
    ELSE << 123 >> \o NewlineIndent(indent, level + 1)
         \o Join([i \in 1..Len(d) |->
                     EncodeString(d[i][1]) \o << 58, 32 >> \o EncodeString(d[i][2])],
                 << 44 >> \o NewlineIndent(indent, level + 1))
         \o NewlineIndent(indent, level) \o << 125 >>

JsonDump(history, indent) ==
    IF history = << >> THEN << 91, 93 >>
    ELSE << 91 >> \o NewlineIndent(indent, 1)
         \o Join([i \in 1..Len(history) |-> DumpDict(history[i], indent, 1)],
                 << 44 >> \o NewlineIndent(indent, 1))
         \o NewlineIndent(indent, 0) \o << 93 >>

\* json.dump(x, f) without indent, as the tests write their fixtures:
\* separators ", " and ": " on one line
DumpCompact(history) ==
    << 91 >>
    \o Join([i \in 1..Len(history) |->
               << 123 >>
               \o Join([j \in 1..Len(history[i]) |->
                           EncodeString(history[i][j][1]) \o << 58, 32 >>
                           \o EncodeString(history[i][j][2])],
                       << 44, 32 >>)
               \o << 125 >>],
            << 44, 32 >>)
    \o << 93 >>

-----------------------------------------------------------------------------
(* json.load(f): the decoder, for documents that are an array of objects   *)
(* whose values are strings (the only shape the history file takes); any   *)
(* other text is a JSONDecodeError.                                        *)

Fail == [ok |-> FALSE, val |-> << >>, pos |-> 0]

At(s, i) == IF i >= 1 /\ i <= Len(s) THEN s[i] ELSE -1

RECURSIVE SkipWs(_, _)
SkipWs(s, i) == IF At(s, i) \in {32, 9, 10, 13} THEN SkipWs(s, i + 1) ELSE i

HexVal(c) ==
    IF c >= 48 /\ c <= 57 THEN c - 48
    ELSE IF c >= 97 /\ c <= 102 THEN c - 87
    ELSE IF c >= 65 /\ c <= 70 THEN c - 55
    ELSE -1

\* BACKSLASH of json.decoder
Unescape(c) ==
    IF c \in {34, 92, 47} THEN c
    ELSE IF c = 98 THEN 8
    ELSE IF c = 102 THEN 12
    ELSE IF c = 110 THEN 10
    ELSE IF c = 114 THEN 13
    ELSE IF c = 116 THEN 9
    ELSE -1

\* py_scanstring, strict: i is the position after the opening quote
RECURSIVE ScanString(_, _, _)
ScanString(s, i, acc) ==
    IF i > Len(s) THEN Fail
    ELSE IF s[i] = 34 THEN [ok |-> TRUE, val |-> acc, pos |-> i + 1]
    ELSE IF s[i] = 92
         THEN IF At(s, i + 1) = 117
              THEN IF \A k \in 2..5 : HexVal(At(s, i + k)) >= 0
                   THEN ScanString(s, i + 6,
                            Append(acc, HexVal(s[i + 2]) * 4096 + HexVal(s[i + 3]) * 256
                                        + HexVal(s[i + 4]) * 16 + HexVal(s[i + 5])))
                   ELSE Fail
              ELSE IF Unescape(At(s, i + 1)) >= 0
                   THEN ScanString(s, i + 2, Append(acc, Unescape(s[i + 1])))
                   ELSE Fail
    ELSE IF s[i] < 32 THEN Fail
    ELSE ScanString(s, i + 1, Append(acc, s[i]))

\* the pairs of an object: j is the position of the opening quote of a key
RECURSIVE ParsePairs(_, _, _)
ParsePairs(s, j, acc) ==
    IF At(s, j) # 34 THEN Fail
    ELSE LET key == ScanString(s, j + 1, << >>)
             colon == SkipWs(s, key.pos)
             v == SkipWs(s, colon + 1)
             val == ScanString(s, v + 1, << >>)
             e == SkipWs(s, val.pos)
         IN  IF ~key.ok \/ At(s, colon) # 58 \/ At(s, v) # 34 THEN Fail
             ELSE IF ~val.ok THEN Fail
             ELSE IF At(s, e) = 44
                  THEN ParsePairs(s, SkipWs(s, e + 1), DictSet(acc, key.val, val.val))
             ELSE IF At(s, e) = 125
                  THEN [ok |-> TRUE, val |-> DictSet(acc, key.val, val.val), pos |-> e + 1]
             ELSE Fail

\* JSONObject: i is the position of "{"
ParseObject(s, i) ==
    IF At(s, i) # 123 THEN Fail
    ELSE LET j == SkipWs(s, i + 1)
         IN  IF At(s, j) = 125 THEN [ok |-> TRUE, val |-> << >>, pos |-> j + 1]
             ELSE ParsePairs(s, j, << >>)

\* the items of an array: j is the position of an item
RECURSIVE ParseItems(_, _, _)
ParseItems(s, j, acc) ==
    LET item == ParseObject(s, j)
        e == SkipWs(s, item.pos)
    IN  IF ~item.ok THEN Fail
        ELSE IF At(s, e) = 44 THEN ParseItems(s, SkipWs(s, e + 1), Append(acc, item.val))
        ELSE IF At(s, e) = 93
             THEN [ok |-> TRUE, val |-> Append(acc, item.val), pos |-> e + 1]
        ELSE Fail

\* JSONArray: i is the position of "["
ParseArray(s, i) ==
    IF At(s, i) # 91 THEN Fail
    ELSE LET j == SkipWs(s, i + 1)
         IN  IF At(s, j) = 93 THEN [ok |-> TRUE, val |-> << >>, pos |-> j + 1]
             ELSE ParseItems(s, j, << >>)

\* json.loads: one document, then only whitespace; [ok, val]
JsonLoads(s) ==
    LET doc == ParseArray(s, SkipWs(s, 1))
    IN  IF At(s, 1) = 65279 THEN [ok |-> FALSE, val |-> << >>]
        ELSE IF ~doc.ok THEN [ok |-> FALSE, val |-> << >>]
        ELSE IF SkipWs(s, doc.pos) <= Len(s) THEN [ok |-> FALSE, val |-> << >>]
        ELSE [ok |-> TRUE, val |-> doc.val]

-----------------------------------------------------------------------------
(* Inputs.                                                                 *)

\* user messages: "Hi" and a text with a quote, a backslash, a newline and
\* a three-byte character
UserMessages == { << 72, 105 >>, << 34, 92, 10, 20013 >> }

\* texts the remote side sends: "a", and e-acute ESC (a two-byte character
\* and a control character)
ReplyTexts == { << 97 >>, << 233, 27 >> }

\* system_prompt arguments
SystemPrompts == { << 80 >>, << 81, 128512 >> }

\* api_key arguments and values of OPENAI_API_KEY (NoKey: absent, unset)
KeyArgs == { NoKey, "", "param-key" }
EnvValues == { NoKey, "env-key" }

\* the remote side's answer to a non-streaming request: the request raises,
\* the response has no choices, or choices[0].message.content is None or text
Responses ==
    { [kind |-> "raise", content |-> None], [kind |-> "nochoices", content |-> None] }
    \cup [kind : {"content"}, content : {None, << >>} \cup ReplyTexts]

\* chunk.choices[0].delta.content of one stream chunk
Deltas == {None, << >>} \cup ReplyTexts

SeqsUpTo(S, n) == UNION { [1..k -> S] : k \in 0..n }

\* the remote side's answer to a streaming request of at most n chunks: the
\* request raises ("request"), or the chunks delivered and then the end of the
\* stream ("eos") or an error raised by the iterator ("error")
Streams(n) ==
    { [chunks |-> << >>, ending |-> "request"] }
    \cup [chunks : SeqsUpTo(Deltas, n), ending : {"eos", "error"}]

\* transcripts found on disk at the start
SeedSystem == << Message(RoleSystem, << 83 >>) >>
SeedSession ==
    << Message(RoleSystem, << 83 >>), Message(RoleUser, << 72, 105 >>),
       Message(RoleAssistant, << 13, 127, 128512 >>) >>
SeedNoSystem == << Message(RoleUser, << 233 >>), Message(RoleAssistant, << 34 >>) >>

\* the same text with Windows line ends
CrLf(s) == Flatten([i \in 1..Len(s) |-> IF s[i] = 10 THEN << 13, 10 >> ELSE << s[i] >>])

\* contents of the history file at the start: "[]" and a one-line fixture as
\* the tests write them, files of earlier sessions (one with Windows line
\* ends, without a system entry), text that is no JSON, bytes that are no
\* UTF-8
InitialFiles ==
    { Utf8Encode(DumpCompact(<< >>)),
      Utf8Encode(DumpCompact(SeedSystem)),
      Utf8Encode(JsonDump(SeedSession, 2)),
      Utf8Encode(CrLf(JsonDump(SeedNoSystem, 2))),
      << 105, 110, 118, 97, 108, 105, 100 >>,
      << 91, 93, 255 >> }

-----------------------------------------------------------------------------
(* State.                                                                  *)

VARIABLES
    fileExists,    \* history_file.exists()
    file,          \* the bytes of the history file
    alive,         \* a client object has been constructed
    chat_history,  \* self.chat_history of the client
    api_key,       \* self.api_key of the client, the key its OpenAI client holds
    last           \* the last call: its arguments, the environment and the
                   \* remote side's answer it met, its outcome and what it
                   \* did on the way

vars == << fileExists, file, alive, chat_history, api_key, last >>

NoCall ==
    [op |-> "none", message |-> None, key |-> NoKey, environ |-> NoKey,
     response |-> [kind |-> "raise", content |-> None],
     stream |-> [chunks |-> << >>, ending |-> "request"],
     result |-> "none", ret |-> None, requests |-> << >>,
     loaded |-> FALSE, clients |-> 0]

Init ==
    /\ \/ fileExists = FALSE /\ file = << >>
       \/ fileExists = TRUE /\ file \in InitialFiles
    /\ alive = FALSE
    /\ chat_history = << >>
    /\ api_key = NoKey
    /\ last = NoCall

-----------------------------------------------------------------------------
(* _load_history and _save_history.                                        *)

\* _load_history: self.chat_history = json.load(f) of the file opened in
\* text mode as UTF-8.  [exc, history]: exc is "" or the exception raised,
\* history the value assigned to self.chat_history.
LoadHistory(bytes) ==
    LET text == Utf8Decode(bytes)
        doc == JsonLoads(TranslateNewlines(text.val))
    IN  IF ~text.ok THEN [exc |-> "UnicodeDecodeError", history |-> << >>]
        ELSE IF ~doc.ok THEN [exc |-> "JSONDecodeError", history |-> << >>]
        ELSE [exc |-> "", history |-> doc.val]

\* SaveHistory with the file opened in mode 'a' instead of 'w'
SaveHistoryAppends(history, bytes) == bytes \o Utf8Encode(JsonDump(history, 2))

\* _save_history: the bytes the file holds afterwards (mode 'w' truncates
\* what it held before)
SaveHistory(history, bytes) == Utf8Encode(JsonDump(history, 2))

-----------------------------------------------------------------------------
(* __init__.                                                               *)

\* Python truthiness of an optional string
Truthy(k) == k # NoKey /\ k # ""

\* ResolveKey testing "is not None" instead of truthiness
ResolveKeyIsNotNone(key, environ) == IF key # NoKey THEN key ELSE environ

\* api_key or os.getenv("OPENAI_API_KEY")
ResolveKey(key, environ) == IF Truthy(key) THEN key ELSE environ

\* InitBody that keeps the system message in front of a loaded transcript
\* without a system entry
InitBodyInsertsPrompt(exists, load, environ, system_prompt, key) ==
    LET resolved == IF Truthy(key) THEN key ELSE environ
        initial == << Message(RoleSystem, system_prompt) >>
        hasSystem == \E i \in 1..Len(load.history) :
                         Get(load.history[i], KRole) = RoleSystem
    IN  IF ~exists
        THEN [exc |-> "FileNotFoundError", history |-> << >>, api_key |-> NoKey,
              loaded |-> FALSE, clients |-> 0]
        ELSE IF resolved = NoKey
        THEN [exc |-> "ValueError", history |-> << >>, api_key |-> resolved,
              loaded |-> FALSE, clients |-> 0]
        ELSE IF load.exc # ""
        THEN [exc |-> load.exc, history |-> initial, api_key |-> resolved,
              loaded |-> TRUE, clients |-> 0]
        ELSE [exc |-> "",
              history |-> IF hasSystem THEN load.history ELSE initial \o load.history,
              api_key |-> resolved, loaded |-> TRUE, clients |-> 1]

\* InitBody with the credential check before the file check
InitBodyKeyFirst(exists, load, environ, system_prompt, key) ==
    LET resolved == IF Truthy(key) THEN key ELSE environ
        initial == << Message(RoleSystem, system_prompt) >>
    IN  IF resolved = NoKey
        THEN [exc |-> "ValueError", history |-> << >>, api_key |-> resolved,
              loaded |-> FALSE, clients |-> 0]
        ELSE IF ~exists
        THEN [exc |-> "FileNotFoundError", history |-> << >>, api_key |-> NoKey,
              loaded |-> FALSE, clients |-> 0]
        ELSE IF load.exc # ""
        THEN [exc |-> load.exc, history |-> initial, api_key |-> resolved,
              loaded |-> TRUE, clients |-> 0]
        ELSE [exc |-> "", history |-> load.history, api_key |-> resolved,
              loaded |-> TRUE, clients |-> 1]

\* the steps of __init__ in order: [exc, history, api_key, loaded, clients].
\* `load` is what _load_history does on the file, used once line 36 is reached.
InitBody(exists, load, environ, system_prompt, key) ==
    LET resolved == ResolveKey(key, environ)
        \* line 35; line 36 assigns self.chat_history again
        initial == << Message(RoleSystem, system_prompt) >>
    IN  IF ~exists
        THEN [exc |-> "FileNotFoundError", history |-> << >>, api_key |-> NoKey,
              loaded |-> FALSE, clients |-> 0]
        ELSE IF resolved = NoKey
        THEN [exc |-> "ValueError", history |-> << >>, api_key |-> resolved,
              loaded |-> FALSE, clients |-> 0]
        ELSE IF load.exc # ""
        THEN [exc |-> load.exc, history |-> initial, api_key |-> resolved,
              loaded |-> TRUE, clients |-> 0]
        ELSE [exc |-> "", history |-> load.history, api_key |-> resolved,
              loaded |-> TRUE, clients |-> 1]

\* OpenAIChatbot(model_name, history_file, system_prompt, api_key) with
\* OPENAI_API_KEY = environ: a failed construction yields no object, the
\* client constructed before stays
Construct(system_prompt, key, environ, load) ==
    LET r == InitBody(fileExists, load, environ, system_prompt, key)
    IN  /\ last' = [NoCall EXCEPT !.op = "init", !.message = system_prompt, !.key = key,
                                  !.environ = environ,
                                  !.result = IF r.exc = "" THEN "ok" ELSE r.exc,
                                  !.loaded = r.loaded, !.clients = r.clients]
        /\ IF r.exc = ""
           THEN /\ alive' = TRUE
                /\ chat_history' = r.history
                /\ api_key' = r.api_key
           ELSE UNCHANGED << alive, chat_history, api_key >>
        /\ UNCHANGED << fileExists, file >>

-----------------------------------------------------------------------------
(* chat and chat_stream.                                                   *)

\* [{"role": m["role"], "content": m["content"]} for m in self.chat_history]
RequestMessages(history) ==
    << >> \o [i \in 1..Len(history) |->
                 Message(Get(history[i], KRole), Get(history[i], KContent))]

\* Accumulate putting each fragment in front of the text collected so far
RECURSIVE AccumulatePrepends(_, _, _)
AccumulatePrepends(chunks, i, full_response) ==
    IF i > Len(chunks) THEN full_response
    ELSE IF chunks[i] # None /\ chunks[i] # << >>
         THEN AccumulatePrepends(chunks, i + 1, chunks[i] \o full_response)
    ELSE AccumulatePrepends(chunks, i + 1, full_response)

\* the loop of chat_stream over the chunks delivered: full_response
RECURSIVE Accumulate(_, _, _)
Accumulate(chunks, i, full_response) ==
    IF i > Len(chunks) THEN full_response
    ELSE IF chunks[i] # None /\ chunks[i] # << >>
         THEN Accumulate(chunks, i + 1, full_response \o chunks[i])
    ELSE Accumulate(chunks, i + 1, full_response)

\* ChatBody building the request before the user message is appended
ChatBodyRequestFirst(history, bytes, message, response) ==
    LET asked == Append(history, Message(RoleUser, message))
        request == [messages |-> RequestMessages(history), stream |-> FALSE]
        response_text == IF response.content = None \/ response.content = << >>
                         THEN << >> ELSE response.content
        answered == Append(asked, Message(RoleAssistant, response_text))
    IN  IF response.kind # "content"
        THEN [exc |-> "APIError", history |-> asked, bytes |-> bytes, ret |-> None,
              requests |-> << request >>]
        ELSE [exc |-> "", history |-> answered, bytes |-> SaveHistory(answered, bytes),
              ret |-> response_text, requests |-> << request >>]

\* ChatBody without the call of _save_history
ChatBodyNoSave(history, bytes, message, response) ==
    LET asked == Append(history, Message(RoleUser, message))
        request == [messages |-> RequestMessages(asked), stream |-> FALSE]
        response_text == IF response.content = None \/ response.content = << >>
                         THEN << >> ELSE response.content
        answered == Append(asked, Message(RoleAssistant, response_text))
    IN  IF response.kind # "content"
        THEN [exc |-> "APIError", history |-> asked, bytes |-> bytes, ret |-> None,
              requests |-> << request >>]
        ELSE [exc |-> "", history |-> answered, bytes |-> bytes,
              ret |-> response_text, requests |-> << request >>]

\* ChatBody taking the user message back when the request fails
ChatBodyRollsBack(history, bytes, message, response) ==
    LET asked == Append(history, Message(RoleUser, message))
        request == [messages |-> RequestMessages(asked), stream |-> FALSE]
        response_text == IF response.content = None \/ response.content = << >>
                         THEN << >> ELSE response.content
        answered == Append(asked, Message(RoleAssistant, response_text))
    IN  IF response.kind # "content"
        THEN [exc |-> "APIError", history |-> history, bytes |-> bytes, ret |-> None,
              requests |-> << request >>]
        ELSE [exc |-> "", history |-> answered, bytes |-> SaveHistory(answered, bytes),
              ret |-> response_text, requests |-> << request >>]

\* the body of chat: [exc, history, bytes, ret, requests]
ChatBody(history, bytes, message, response) ==
    LET asked == Append(history, Message(RoleUser, message))
        request == [messages |-> RequestMessages(asked), stream |-> FALSE]
        response_text == IF response.content = None \/ response.content = << >>
                         THEN << >> ELSE response.content
        answered == Append(asked, Message(RoleAssistant, response_text))
    IN  IF response.kind = "raise"
        THEN [exc |-> "APIError", history |-> asked, bytes |-> bytes, ret |-> None,
              requests |-> << request >>]
        ELSE IF response.kind = "nochoices"
        THEN [exc |-> "IndexError", history |-> asked, bytes |-> bytes, ret |-> None,
              requests |-> << request >>]
        ELSE [exc |-> "", history |-> answered, bytes |-> SaveHistory(answered, bytes),
              ret |-> response_text, requests |-> << request >>]

\* ChatStreamBody appending what had arrived when the stream fails
ChatStreamBodyKeepsPartial(history, bytes, message, stream) ==
    LET asked == Append(history, Message(RoleUser, message))
        request == [messages |-> RequestMessages(asked), stream |-> TRUE]
        full_response == Accumulate(stream.chunks, 1, << >>)
        answered == Append(asked, Message(RoleAssistant, full_response))
    IN  IF stream.ending = "request"
        THEN [exc |-> "APIError", history |-> asked, bytes |-> bytes, ret |-> None,
              requests |-> << request >>]
        ELSE IF stream.ending = "error"
        THEN [exc |-> "APIError", history |-> answered, bytes |-> bytes, ret |-> None,
              requests |-> << request >>]
        ELSE [exc |-> "", history |-> answered, bytes |-> SaveHistory(answered, bytes),
              ret |-> full_response, requests |-> << request >>]

\* the body of chat_stream: [exc, history, bytes, ret, requests]
ChatStreamBody(history, bytes, message, stream) ==
    LET asked == Append(history, Message(RoleUser, message))
        request == [messages |-> RequestMessages(asked), stream |-> TRUE]
        full_response == Accumulate(stream.chunks, 1, << >>)
        answered == Append(asked, Message(RoleAssistant, full_response))
    IN  IF stream.ending # "eos"
        THEN [exc |-> "APIError", history |-> asked, bytes |-> bytes, ret |-> None,
              requests |-> << request >>]
        ELSE [exc |-> "", history |-> answered, bytes |-> SaveHistory(answered, bytes),
              ret |-> full_response, requests |-> << request >>]

\* the decorator: any exception of the body becomes ConnectionError; what the
\* body did before raising stays done
HandleOpenaiErrors(r) == IF r.exc = "" THEN r ELSE [r EXCEPT !.exc = "ConnectionError"]

\* the effect of a chat or chat_stream call whose decorated body came out as r
Turn(op, message, response, stream, r) ==
    /\ last' = [NoCall EXCEPT !.op = op, !.message = message, !.response = response,
                              !.stream = stream,
                              !.result = IF r.exc = "" THEN "ok" ELSE r.exc,
                              !.ret = r.ret, !.requests = r.requests]
    /\ chat_history' = r.history
    /\ file' = r.bytes
    /\ UNCHANGED << fileExists, alive, api_key >>

Chat(message, response) ==
    /\ alive
    /\ \E r \in { HandleOpenaiErrors(ChatBody(chat_history, file, message, response)) } :
          Turn("chat", message, response, NoCall.stream, r)

ChatStream(message, stream) ==
    /\ alive
    /\ \E r \in { HandleOpenaiErrors(ChatStreamBody(chat_history, file, message, stream)) } :
          Turn("chat_stream", message, NoCall.response, stream, r)

-----------------------------------------------------------------------------
(* Specifications.                                                         *)

\* a session: clients are constructed over the file and take turns, as long
\* as the transcript is short
Next ==
    \/ \E load \in { LoadHistory(file) } :
          \E p \in SystemPrompts, k \in KeyArgs, e \in EnvValues : Construct(p, k, e, load)
    \/ /\ Len(chat_history) <= MaxHist
       /\ \E m \in UserMessages, r \in Responses : Chat(m, r)
    \/ /\ Len(chat_history) <= MaxHist
       /\ \E m \in UserMessages, s \in Streams(MaxChunks) : ChatStream(m, s)

Spec == Init /\ [][Next]_vars

\* one chat_stream call, with longer streams, on a client just constructed
\* over one of the files
InitStream ==
    /\ fileExists = TRUE
    /\ file \in InitialFiles
    /\ LoadHistory(file).exc = ""
    /\ alive = TRUE
    /\ chat_history = LoadHistory(file).history
    /\ api_key = "param-key"
    /\ last = NoCall

NextStream ==
    /\ last.op = "none"
    /\ \E m \in UserMessages, s \in Streams(MaxStreamLen) : ChatStream(m, s)

SpecStream == InitStream /\ [][NextStream]_vars

-----------------------------------------------------------------------------
(* Properties.                                                             *)

IsTurn(c) == c.op \in {"chat", "chat_stream"}
TurnOk(c) == IsTurn(c) /\ c.result = "ok"
TurnFailed(c) == IsTurn(c) /\ c.result # "ok"

\* the remote call of the turn raised: the request itself, the stream part
\* way, or a response without choices
RemoteFailed(c) ==
    \/ c.op = "chat" /\ c.response.kind # "content"
    \/ c.op = "chat_stream" /\ c.stream.ending # "eos"

UserEntry(c) == Message(RoleUser, c.message)

\* the transcript the file holds
Persisted == LoadHistory(file)

\* the layouts a transcript is written in: on one line, indented, indented
\* with Windows line ends
Layouts(t) ==
    { Utf8Encode(DumpCompact(t)), Utf8Encode(JsonDump(t, 2)),
      Utf8Encode(CrLf(JsonDump(t, 2))) }

\* the transcripts found on disk at the start, each with its layouts
SeedLayouts ==
    { [seed |-> t, files |-> Layouts(t)] : t \in {SeedSystem, SeedSession, SeedNoSystem} }

\* C1: a client constructed over a file that holds the empty list has exactly
\* one entry in its transcript, the system message with the system_prompt it
\* was given.
C1_EmptyFileGetsSystemPrompt ==
    (last.op = "init" /\ last.result = "ok" /\ Persisted.history = << >>)
        => chat_history = << Message(RoleSystem, last.message) >>

\* C2: a client constructed over a file that holds a non-empty transcript has
\* that transcript, entry for entry, whatever system_prompt it was given and
\* whether or not the transcript has a system entry; and no construction,
\* successful or failed, writes the file.
C2_NonEmptyLoadedVerbatim ==
    /\ [][last'.op = "init" => (file' = file /\ fileExists' = fileExists)]_vars
    /\ []((last.op = "init" /\ last.result = "ok" /\ Len(Persisted.history) > 0)
             => /\ chat_history = Persisted.history
                /\ \A s \in SeedLayouts : file \in s.files => chat_history = s.seed)

\* a client over the file without a system entry
C2_Witness ==
    /\ last.op = "init" /\ last.result = "ok"
    /\ file \in Layouts(SeedNoSystem)
    /\ chat_history = SeedNoSystem
    /\ last.message \in SystemPrompts

\* C3: a chat call whose request succeeds issues exactly one non-streaming
\* request with the transcript before the call followed by the user message;
\* afterwards the transcript is the one before the call, the user message and
\* the assistant reply, and the call returns the reply, the empty text when
\* the reply carries no content.
C3_ChatAppendsTurn ==
    [][(last'.op = "chat" /\ last'.response.kind = "content") =>
          LET asked == Append(chat_history, UserEntry(last'))
              reply == IF last'.response.content = None THEN << >>
                       ELSE last'.response.content
          IN  /\ last'.result = "ok"
              /\ last'.requests = << [messages |-> asked, stream |-> FALSE] >>
              /\ chat_history' = asked \o << Message(RoleAssistant, reply) >>
              /\ last'.ret = reply]_vars

\* a reply without content after a transcript that was not empty
C3_Witness ==
    /\ last.op = "chat" /\ last.result = "ok"
    /\ last.response.content = None
    /\ last.ret = << >>
    /\ Len(chat_history) = 3
    /\ chat_history[3] = Message(RoleAssistant, << >>)

\* the text of the chunks in arrival order, a chunk without text counting as
\* the empty text
ChunkTexts(chunks) ==
    Flatten([i \in 1..Len(chunks) |-> IF chunks[i] = None THEN << >> ELSE chunks[i]])

\* C4: a chat_stream call whose stream ends returns the texts of the chunks
\* that carry text, concatenated in arrival order, and appends the user
\* message and one assistant entry with exactly that text.
C4_StreamConcatenates ==
    [][(last'.op = "chat_stream" /\ last'.stream.ending = "eos") =>
          /\ last'.result = "ok"
          /\ last'.ret = ChunkTexts(last'.stream.chunks)
          /\ chat_history' = chat_history
                 \o << UserEntry(last'),
                       Message(RoleAssistant, ChunkTexts(last'.stream.chunks)) >>]_vars

\* two different texts with a chunk without text between them
C4_Witness ==
    /\ last.op = "chat_stream" /\ last.result = "ok"
    /\ Len(last.stream.chunks) = 3
    /\ last.stream.chunks[1] \in ReplyTexts
    /\ last.stream.chunks[2] \in {None, << >>}
    /\ last.stream.chunks[3] \in ReplyTexts \ {last.stream.chunks[1]}
    /\ last.ret = last.stream.chunks[1] \o last.stream.chunks[3]

\* C5: a chat or chat_stream call whose remote call raises fails with
\* ConnectionError after exactly one request, and the transcript is the one
\* before the call followed by the user message only.
C5_RemoteErrorKeepsUserOnly ==
    [][RemoteFailed(last') =>
          /\ last'.result = "ConnectionError"
          /\ Len(last'.requests) = 1
          /\ chat_history' = Append(chat_history, UserEntry(last'))]_vars

\* a stream that fails after a fragment has arrived
C5_Witness ==
    /\ last.op = "chat_stream" /\ last.result = "ConnectionError"
    /\ last.stream.ending = "error"
    /\ \E i \in 1..Len(last.stream.chunks) : last.stream.chunks[i] \in ReplyTexts
    /\ chat_history[Len(chat_history)] = UserEntry(last)

C7_SaveLoadRoundTrip ==
    /\ LoadHistory(SaveHistory(chat_history, file))
           = [exc |-> "", history |-> chat_history]
    /\ SaveHistory(chat_history, file) = SaveHistory(chat_history, << >>)

\* a transcript with a quote, a backslash, a newline, control characters and
\* multi-byte characters, saved over a file that held something else
C7_Witness ==
    /\ TurnOk(last)
    /\ file = SaveHistory(chat_history, << >>)
    /\ Persisted.history = chat_history
    /\ last.message = << 34, 92, 10, 20013 >>
    /\ last.ret = << 233, 27 >>

C9_GivenParameterIsUsed ==
    (last.op = "init" /\ fileExists) =>
        /\ (last.key = NoKey /\ last.environ = NoKey) =>
              (last.result = "ValueError" /\ ~last.loaded /\ last.clients = 0)
        /\ last.key # NoKey =>
              (last.result # "ValueError" /\ (last.result = "ok" => api_key = last.key))

\* C9 amended: over an existing file, a parameter that is absent or the empty
\* text together with an unset environment value is a ValueError before
\* anything is loaded or created; a parameter that is a non-empty text is the
\* key used, and otherwise the environment value is.
C9_NonEmptyParameterIsUsed ==
    (last.op = "init" /\ fileExists) =>
        /\ (last.key \in {NoKey, ""} /\ last.environ = NoKey) =>
              (last.result = "ValueError" /\ ~last.loaded /\ last.clients = 0)
        /\ last.result = "ok" =>
              api_key = (IF last.key \in {NoKey, ""} THEN last.environ ELSE last.key)
        /\ (last.key \notin {NoKey, ""} \/ last.environ # NoKey) =>
              last.result # "ValueError"

\* an empty parameter: the environment value is the key
C9_Witness ==
    /\ last.op = "init" /\ last.result = "ok"
    /\ last.key = "" /\ last.environ = "env-key"
    /\ api_key = "env-key"

\* C10: a failed turn leaves the file as it was and its user message in the
\* transcript; no turn removes an entry; the request of a turn carries the
\* whole transcript, so a success right after a failure ends the transcript
\* with the two user messages and the assistant entry, and writes them to the
\* file.
C10_FailedTurnKeepsUserMessage ==
    /\ [][/\ TurnFailed(last') =>
                /\ file' = file
                /\ chat_history' = Append(chat_history, UserEntry(last'))
          /\ IsTurn(last') =>
                /\ SubSeq(chat_history', 1, Len(chat_history)) = chat_history
                /\ last'.requests[1].messages = Append(chat_history, UserEntry(last'))
          /\ (TurnFailed(last) /\ TurnOk(last')) =>
                /\ SubSeq(chat_history', Len(chat_history') - 2, Len(chat_history'))
                       = << UserEntry(last), UserEntry(last'),
                            Message(RoleAssistant, last'.ret) >>
                /\ file' = SaveHistory(chat_history', file)]_vars
    /\ [](TurnOk(last) => Persisted.history = chat_history)

\* two user messages in a row before the assistant entry, in memory and in
\* the file
C10_Witness ==
    /\ TurnOk(last)
    /\ Len(chat_history) >= 3
    /\ Get(chat_history[Len(chat_history) - 2], KRole) = RoleUser
    /\ Get(chat_history[Len(chat_history) - 1], KRole) = RoleUser
    /\ Get(chat_history[Len(chat_history)], KRole) = RoleAssistant
    /\ Persisted.history = chat_history
    /\ chat_history[Len(chat_history) - 2] # chat_history[Len(chat_history) - 1]

====
